---- MODULE Spec2Model ----
(***************************************************************************)
(* Model of app.py, the ICP segment explorer: one script run is one pass   *)
(* load -> stop-if-empty -> rename -> vocabularies -> selections -> filter *)
(* -> projection -> sort -> summaries -> export.                           *)
(*                                                                         *)
(* Text is a sequence of one-character strings, so that split, strip,      *)
(* substring containment and lexicographic order are computed as Python    *)
(* computes them.  A cell is a record [k, s, n]: k = "nan" (missing),      *)
(* k = "str" (text s) or k = "num" (number n).                             *)
(***************************************************************************)
EXTENDS Integers, Sequences, FiniteSets, TLC

\* Bounds of the model.
MaxRows == 2
MaxSelected == 2

----------------------------------------------------------------------------
\* Text

\* The characters used, in code-point order.
Alphabet == <<" ", ",", "M", "N", "O", "Q", "R", "S", "T", "X", "Y", "f", "h", "p", "t">>

Ord(c) == CHOOSE i \in 1..Len(Alphabet) : Alphabet[i] = c

\* Python's str < str: the first differing character decides, a proper
\* prefix is smaller.
LessStr(a, b) ==
    \E i \in 1..Len(b) :
        /\ i - 1 <= Len(a)
        /\ \A j \in 1..(i - 1) : a[j] = b[j]
        /\ \/ i = Len(a) + 1
           \/ i <= Len(a) /\ Ord(a[i]) < Ord(b[i])

\* sorted(S) for a set of texts.
RECURSIVE SortedSeq(_)
SortedSeq(S) ==
    IF S = {} THEN <<>>
    ELSE LET m == CHOOSE x \in S : \A y \in S \ {x} : LessStr(x, y)
         IN  <<m>> \o SortedSeq(S \ {m})

\* s.split(","): the pieces between commas, empty pieces kept.
RECURSIVE Split(_)
Split(s) ==
    IF \A i \in 1..Len(s) : s[i] # ","
    THEN <<s>>
    ELSE LET i == CHOOSE k \in 1..Len(s) :
                      s[k] = "," /\ \A j \in 1..(k - 1) : s[j] # ","
         IN  <<SubSeq(s, 1, i - 1)>> \o Split(SubSeq(s, i + 1, Len(s)))

\* s.strip(): leading and trailing blanks removed.
RECURSIVE Strip(_)
Strip(s) ==
    IF s = <<>> THEN s
    ELSE IF s[1] = " " THEN Strip(Tail(s))
    ELSE IF s[Len(s)] = " " THEN Strip(SubSeq(s, 1, Len(s) - 1))
    ELSE s

\* `sub in s` for texts: sub occurs as a contiguous substring of s.
Contains(sub, s) ==
    \E i \in 0..(Len(s) - Len(sub)) : SubSeq(s, i + 1, i + Len(sub)) = sub

\* s.startswith(p)
StartsWith(s, p) == Len(p) <= Len(s) /\ SubSeq(s, 1, Len(p)) = p

Range(f) == {f[i] : i \in DOMAIN f}

----------------------------------------------------------------------------
\* Cells, rows, frames

NaN == [k |-> "nan", s |-> <<>>, n |-> 0]
Str(t) == [k |-> "str", s |-> t, n |-> 0]
Num(v) == [k |-> "num", s |-> <<>>, n |-> v]

\* pd.notna / dropna
NotNa(x) == x.k # "nan"

\* The columns the program names.
AllCols ==
    {"Aggregated Location", "location_clean", "cleaned_roles", "gpt_industry",
     "state", "city", "pool_size", "PC URL", "primary_role", "industries_clean"}

\* pd.DataFrame(): no columns, no rows.
EmptyFrame == [columns |-> {}, rows |-> <<>>]

\* Seeded fault in Empty: only a frame without columns counts as empty.
EmptyNoColumns(d) == d.columns = {}

\* df.empty: some axis has length 0.
Empty(d) == d.columns = {} \/ Len(d.rows) = 0

\* df[col] as the sequence of its cells, in row order.
Column(d, col) == [i \in 1..Len(d.rows) |-> d.rows[i].cells[col]]

----------------------------------------------------------------------------
\* Input files

tN == <<"N">>
tQ == <<"Q">>
tSMO == <<"S", "M", ",", " ", "O">>
tSM == <<"S", "M">>
tM == <<"M">>
tMc == <<"M", ",">>
tR == <<"R">>
tRT == <<"R", ",", " ", "T">>
tT == <<"T">>
tX == <<"X">>
tY == <<"Y">>
tHttp == <<"h", "t", "t", "p">>
tFtp == <<"f", "t", "p">>

\* The rows input files are made of.  Each gives a cell for every column;
\* a file keeps the cells of the columns its header has.
Pool ==
    << [c \in AllCols |->
          CASE c = "Aggregated Location" -> Str(tN)
            [] c = "location_clean" -> Str(tN)
            [] c = "cleaned_roles" -> Str(tSMO)
            [] c = "gpt_industry" -> Str(tR)
            [] c = "state" -> Str(tT)
            [] c = "city" -> Str(tX)
            [] c = "pool_size" -> Num(5)
            [] c = "PC URL" -> Str(tHttp)
            [] c = "primary_role" -> Str(tSM)
            [] c = "industries_clean" -> Str(tR)],
       [c \in AllCols |->
          CASE c = "Aggregated Location" -> Str(tQ)
            [] c = "location_clean" -> Str(tQ)
            [] c = "cleaned_roles" -> Str(tMc)
            [] c = "gpt_industry" -> Str(tRT)
            [] c = "state" -> Str(tT)
            [] c = "city" -> Str(tY)
            [] c = "pool_size" -> Num(9)
            [] c = "PC URL" -> Str(tFtp)
            [] c = "primary_role" -> Str(tM)
            [] c = "industries_clean" -> Str(tR)],
       [c \in AllCols |-> NaN] >>

Canonical == AllCols \ {"Aggregated Location"}

\* The headers of the input files: every column present, each optional
\* column missing in turn, the alternate location column with and without
\* the canonical one, and files of a single column.
Schemas ==
    {Canonical, AllCols, AllCols \ {"location_clean"}}
        \cup {Canonical \ {c} : c \in Canonical}
        \cup {{"industries_clean"}, {"pool_size"}, {"PC URL"}}

\* The frame pd.read_csv gives for a well-formed file: RangeIndex 0..n-1.
Table(schema, picks) ==
    [columns |-> schema,
     rows |-> [i \in 1..Len(picks) |->
                  [idx |-> i - 1,
                   cells |-> [c \in schema |-> Pool[picks[i]][c]]]]]

PickSeqs == UNION {[1..n -> 1..Len(Pool)] : n \in 0..MaxRows}

\* A file pd.read_csv cannot parse (malformed, missing, unreadable).
BadFile == [ok |-> FALSE, frame |-> EmptyFrame]

\* What the uploader can hold.
Files ==
    {BadFile} \cup
    {[ok |-> TRUE, frame |-> Table(schema, picks)] :
        schema \in Schemas, picks \in PickSeqs}

\* What the default path can hold: nothing readable, or a file of the
\* canonical header.
DefaultFiles ==
    {BadFile} \cup
    {[ok |-> TRUE, frame |-> Table(Canonical, picks)] : picks \in PickSeqs}

----------------------------------------------------------------------------
\* State

VARIABLES
    pc,             \* position of the script run
    uploaded_file,  \* TRUE iff the uploader holds a file
    file,           \* the file the run reads (the upload, else the default path)
    df,             \* the loaded record set
    msgs,           \* st.success / st.info / st.error messages shown
    raised,         \* the exception that escaped the script, or "none"
    executed,       \* the steps after loading this run has executed
    unique,         \* unique_roles, ..., unique_cities
    selected,       \* selected_roles, ..., selected_cities
    filtered_df,    \* the working copy
    sort_column,
    sort_ascending,
    out,            \* the blocks rendered
    stats           \* the pool-size statistics rendered

vars ==
    <<pc, uploaded_file, file, df, msgs, raised, executed, unique, selected,
      filtered_df, sort_column, sort_ascending, out, stats>>

NoVocab == [roles |-> <<>>, industries |-> <<>>, locations |-> <<>>,
            states |-> <<>>, cities |-> <<>>]
NoSelection == [roles |-> {}, industries |-> {}, locations |-> {},
                states |-> {}, cities |-> {}]
NoStats == [shown |-> FALSE, mean |-> 0, median |-> 0, mode |-> 0]

Init ==
    /\ pc = "load"
    /\ uploaded_file \in BOOLEAN
    /\ file \in (IF uploaded_file THEN Files ELSE DefaultFiles)
    /\ df = EmptyFrame
    /\ msgs = {}
    /\ raised = "none"
    /\ executed = {}
    /\ unique = NoVocab
    /\ selected = NoSelection
    /\ filtered_df = EmptyFrame
    /\ sort_column = "None"
    /\ sort_ascending = TRUE
    /\ out = {}
    /\ stats = NoStats

----------------------------------------------------------------------------
\* Load

\* load_data(default_path): a failed read is reported and gives the empty frame.
load_data(f) ==
    IF f.ok THEN [frame |-> f.frame, error |-> FALSE]
    ELSE [frame |-> EmptyFrame, error |-> TRUE]

\* if uploaded_file: df = pd.read_csv(uploaded_file) -- outside any try.
LoadUploaded ==
    /\ pc = "load"
    /\ uploaded_file
    /\ IF file.ok
       THEN /\ df' = file.frame
            /\ msgs' = msgs \cup {"success"}
            /\ pc' = "loaded"
            /\ raised' = raised
       ELSE /\ pc' = "raised"
            /\ raised' = "read_csv"
            /\ UNCHANGED <<df, msgs>>
    /\ UNCHANGED <<uploaded_file, file, executed, unique, selected, filtered_df,
                   sort_column, sort_ascending, out, stats>>

\* else: df = load_data(default_file_path)
LoadDefault ==
    /\ pc = "load"
    /\ ~uploaded_file
    /\ LET r == load_data(file)
       IN  /\ df' = r.frame
           /\ msgs' = msgs \cup (IF r.error THEN {"error"} ELSE {}) \cup {"info"}
    /\ pc' = "loaded"
    /\ UNCHANGED <<uploaded_file, file, raised, executed, unique, selected,
                   filtered_df, sort_column, sort_ascending, out, stats>>

\* if df.empty: st.stop()
Stop ==
    /\ pc = "loaded"
    /\ Empty(df)
    /\ pc' = "stopped"
    /\ UNCHANGED <<uploaded_file, file, df, msgs, raised, executed, unique,
                   selected, filtered_df, sort_column, sort_ascending, out, stats>>

----------------------------------------------------------------------------
\* Schema normalisation and vocabularies

\* df.rename(columns={"Aggregated Location": "location_clean"}, inplace=True)
\* when the former is a column and the latter is not.
RenameLocation(d) ==
    IF "Aggregated Location" \in d.columns /\ "location_clean" \notin d.columns
    THEN LET cols == (d.columns \ {"Aggregated Location"}) \cup {"location_clean"}
         IN  [columns |-> cols,
              rows |-> [i \in 1..Len(d.rows) |->
                 [idx |-> d.rows[i].idx,
                  cells |-> [c \in cols |->
                     IF c = "location_clean"
                     THEN d.rows[i].cells["Aggregated Location"]
                     ELSE d.rows[i].cells[c]]]]]
    ELSE d

Rename ==
    /\ pc = "loaded"
    /\ ~Empty(df)
    /\ df' = RenameLocation(df)
    /\ out' = out \cup {"loaded_count"}
    /\ executed' = executed \cup {"rename"}
    /\ pc' = "renamed"
    /\ UNCHANGED <<uploaded_file, file, msgs, raised, unique, selected,
                   filtered_df, sort_column, sort_ascending, stats>>

\* df[col].dropna().astype(str): the text of the non-missing cells (the
\* filter columns hold text, which astype(str) leaves as it is).
DropNaStr(d, col) == {x.s : x \in {y \in Range(Column(d, col)) : NotNa(y)}}

\* sorted(set(tok.strip() for cell in ... for tok in cell.split(",")))
\* if the column is present, else [].
TokenVocabulary(d, col) ==
    IF col \in d.columns
    THEN SortedSeq(UNION {{Strip(tok) : tok \in Range(Split(cell))} :
                             cell \in DropNaStr(d, col)})
    ELSE <<>>

\* sorted(df[col].dropna().astype(str).unique()) if the column is present, else [].
ValueVocabulary(d, col) ==
    IF col \in d.columns THEN SortedSeq(DropNaStr(d, col)) ELSE <<>>

unique_roles(d) == TokenVocabulary(d, "cleaned_roles")
unique_industries(d) == TokenVocabulary(d, "gpt_industry")
unique_locations(d) == ValueVocabulary(d, "location_clean")
unique_states(d) == ValueVocabulary(d, "state")
unique_cities(d) == ValueVocabulary(d, "city")

DeriveVocabularies ==
    /\ pc = "renamed"
    /\ unique' = [roles |-> unique_roles(df),
                  industries |-> unique_industries(df),
                  locations |-> unique_locations(df),
                  states |-> unique_states(df),
                  cities |-> unique_cities(df)]
    /\ executed' = executed \cup {"vocabulary"}
    /\ pc' = "vocabulary"
    /\ UNCHANGED <<uploaded_file, file, df, msgs, raised, selected, filtered_df,
                   sort_column, sort_ascending, out, stats>>

\* st.sidebar.multiselect: any subset of the options offered.
Dims == {"roles", "industries", "locations", "states", "cities"}

Options(seq) == {x \in SUBSET Range(seq) : Cardinality(x) <= MaxSelected}

TotalSelected(s) ==
    Cardinality(s.roles) + Cardinality(s.industries) + Cardinality(s.locations)
        + Cardinality(s.states) + Cardinality(s.cities)

Select ==
    /\ pc = "vocabulary"
    /\ \E s \in [roles : Options(unique.roles),
                 industries : Options(unique.industries),
                 locations : Options(unique.locations),
                 states : Options(unique.states),
                 cities : Options(unique.cities)] :
          /\ TotalSelected(s) <= MaxSelected
          /\ selected' = s
    /\ pc' = "selected"
    /\ UNCHANGED <<uploaded_file, file, df, msgs, raised, executed, unique,
                   filtered_df, sort_column, sort_ascending, out, stats>>

----------------------------------------------------------------------------
\* Filtering

\* isinstance(x, str) and any(role in x for role in selected_roles)
RoleMatch(x, selected_roles) ==
    x.k = "str" /\ \E role \in selected_roles : Contains(role, x.s)

\* Series.isin(values) for one cell: the cell equals one of the values
\* (a missing cell equals none).
IsIn(x, values) == x.k = "str" /\ x.s \in values

\* Seeded fault in FilterRoles: a selected role must equal one of the cell's
\* comma-separated tokens.
FilterRolesExactToken(rows, selected_roles) ==
    SelectSeq(rows, LAMBDA r :
        /\ r.cells["cleaned_roles"].k = "str"
        /\ \E role \in selected_roles :
              \E tok \in Range(Split(r.cells["cleaned_roles"].s)) : Strip(tok) = role)

\* Seeded fault in FilterRoles: the matches of each selected role are
\* concatenated, so a row matching two roles is kept twice.
RECURSIVE ConcatMatches(_, _)
ConcatMatches(rows, roles) ==
    IF roles = <<>> THEN <<>>
    ELSE SelectSeq(rows, LAMBDA r :
             /\ r.cells["cleaned_roles"].k = "str"
             /\ Contains(Head(roles), r.cells["cleaned_roles"].s))
         \o ConcatMatches(rows, Tail(roles))

FilterRolesConcat(rows, selected_roles) ==
    ConcatMatches(rows, SortedSeq(selected_roles))

\* filtered_df[filtered_df["cleaned_roles"].apply(...)]
FilterRoles(rows, selected_roles) ==
    SelectSeq(rows, LAMBDA r : RoleMatch(r.cells["cleaned_roles"], selected_roles))

\* filtered_df[filtered_df["gpt_industry"].isin(selected_industries)]
FilterIndustries(rows, selected_industries) ==
    SelectSeq(rows, LAMBDA r : IsIn(r.cells["gpt_industry"], selected_industries))

\* filtered_df[filtered_df["location_clean"].isin(selected_locations)]
FilterLocations(rows, selected_locations) ==
    SelectSeq(rows, LAMBDA r : IsIn(r.cells["location_clean"], selected_locations))

\* filtered_df[filtered_df["state"].isin(selected_states)]
FilterStates(rows, selected_states) ==
    SelectSeq(rows, LAMBDA r : IsIn(r.cells["state"], selected_states))

\* Seeded fault in FilterCities: when no row matches, the frame is left as
\* it was.
FilterCitiesOrAll(rows, selected_cities) ==
    LET hit == SelectSeq(rows, LAMBDA r : IsIn(r.cells["city"], selected_cities))
    IN  IF hit = <<>> THEN rows ELSE hit

\* filtered_df[filtered_df["city"].isin(selected_cities)]
FilterCities(rows, selected_cities) ==
    SelectSeq(rows, LAMBDA r : IsIn(r.cells["city"], selected_cities))

\* One `if selected_x: filtered_df = filtered_df[...]` statement.
FilterStep(dim, rows, s) ==
    IF s[dim] = {} THEN rows
    ELSE CASE dim = "roles" -> FilterRoles(rows, s.roles)
           [] dim = "industries" -> FilterIndustries(rows, s.industries)
           [] dim = "locations" -> FilterLocations(rows, s.locations)
           [] dim = "states" -> FilterStates(rows, s.states)
           [] dim = "cities" -> FilterCities(rows, s.cities)

\* The filter statements applied one after the other, in the given order.
RECURSIVE ApplyInOrder(_, _, _)
ApplyInOrder(order, rows, s) ==
    IF order = <<>> THEN rows
    ELSE ApplyInOrder(Tail(order), FilterStep(Head(order), rows, s), s)

\* The order of the statements in the script.
ProgramOrder == <<"roles", "industries", "locations", "states", "cities">>

\* filtered_df = df.copy(), then the five statements.
FilteredFrame(d, s) ==
    [columns |-> d.columns, rows |-> ApplyInOrder(ProgramOrder, d.rows, s)]

Filter ==
    /\ pc = "selected"
    /\ filtered_df' = FilteredFrame(df, selected)
    /\ executed' = executed \cup {"filter"}
    /\ pc' = "filtered"
    /\ UNCHANGED <<uploaded_file, file, df, msgs, raised, unique, selected,
                   sort_column, sort_ascending, out, stats>>

----------------------------------------------------------------------------
\* Projection

\* lambda x: x if pd.notna(x) and x.startswith("http") else ""
PCLink(x) == IF NotNa(x) /\ StartsWith(x.s, tHttp) THEN x ELSE Str(<<>>)

\* drop industries_clean; derive "PC Link" from "PC URL", then drop "PC URL".
Projected(fd) ==
    LET kept == fd.columns \ {"industries_clean"}
        cols == IF "PC URL" \in kept
                THEN (kept \ {"PC URL"}) \cup {"PC Link"}
                ELSE kept
    IN  [columns |-> cols,
         rows |-> [i \in 1..Len(fd.rows) |->
            [idx |-> fd.rows[i].idx,
             cells |-> [c \in cols |->
                IF c = "PC Link" THEN PCLink(fd.rows[i].cells["PC URL"])
                ELSE fd.rows[i].cells[c]]]]]

Project ==
    /\ pc = "filtered"
    /\ filtered_df' = Projected(filtered_df)
    /\ executed' = executed \cup {"project"}
    /\ pc' = "projected"
    /\ UNCHANGED <<uploaded_file, file, df, msgs, raised, unique, selected,
                   sort_column, sort_ascending, out, stats>>

----------------------------------------------------------------------------
\* Sorting

\* a sorts strictly before b (both present, of one kind).
KeyBefore(a, b, ascending) ==
    LET lt(x, y) == IF x.k = "num" THEN x.n < y.n ELSE LessStr(x.s, y.s)
    IN  IF ascending THEN lt(a, b) ELSE lt(b, a)

Arrangements(seq) ==
    {[i \in 1..Len(seq) |-> seq[p[i]]] : p \in Permutations(1..Len(seq))}

\* DataFrame.sort_values(by=col, ascending=asc) with the default
\* kind="quicksort" and na_position="last": the rows with a key come first,
\* ordered by key, the order among equal keys being whatever the sort
\* routine leaves (quicksort is not a stable sort); the rows with a missing
\* key follow in their previous order.
SortOutcomes(rows, col, ascending) ==
    LET keyed == SelectSeq(rows, LAMBDA r : NotNa(r.cells[col]))
        missing == SelectSeq(rows, LAMBDA r : ~NotNa(r.cells[col]))
    IN  {a \o missing : a \in
            {b \in Arrangements(keyed) :
                \A i, j \in 1..Len(b) :
                    i < j => ~KeyBefore(b[j].cells[col], b[i].cells[col], ascending)}}

\* The selectbox offers filtered_df.columns; with no column left it gives
\* None and sort_values(by=None) raises KeyError.
Sort ==
    /\ pc = "projected"
    /\ IF filtered_df.columns = {}
       THEN /\ pc' = "raised"
            /\ raised' = "sort_values"
            /\ UNCHANGED <<filtered_df, sort_column, sort_ascending, out, executed>>
       ELSE /\ \E col \in filtered_df.columns, asc \in BOOLEAN :
                 /\ sort_column' = col
                 /\ sort_ascending' = asc
                 /\ \E rows \in SortOutcomes(filtered_df.rows, col, asc) :
                       filtered_df' = [filtered_df EXCEPT !.rows = rows]
            /\ out' = out \cup {"filtered_table"}
            /\ executed' = executed \cup {"sort"}
            /\ pc' = "sorted"
            /\ raised' = raised
    /\ UNCHANGED <<uploaded_file, file, df, msgs, unique, selected, stats>>

----------------------------------------------------------------------------
\* Summaries

RECURSIVE Sum(_)
Sum(seq) == IF seq = <<>> THEN 0 ELSE Head(seq) + Sum(Tail(seq))

RECURSIVE SortNums(_)
SortNums(seq) ==
    IF seq = <<>> THEN <<>>
    ELSE LET i == CHOOSE k \in 1..Len(seq) : \A j \in 1..Len(seq) : seq[k] <= seq[j]
         IN  <<seq[i]>> \o SortNums(SubSeq(seq, 1, i - 1) \o SubSeq(seq, i + 1, Len(seq)))

\* The non-missing values of a column of the working copy.
Values(fd, col) == SelectSeq(Column(fd, col), NotNa)

\* int(Series.mean()) of a non-empty series of non-negative numbers.
Mean(v) == Sum(v) \div Len(v)

\* int(Series.median())
Median(v) ==
    LET srt == SortNums(v)
        n == Len(v)
    IN  IF n % 2 = 1 THEN srt[(n + 1) \div 2]
        ELSE (srt[n \div 2] + srt[n \div 2 + 1]) \div 2

\* Series.mode().iloc[0]: the most frequent value, the smallest on a tie.
Mode(v) ==
    LET cnt(x) == Cardinality({i \in 1..Len(v) : v[i] = x})
    IN  CHOOSE x \in Range(v) :
            \A y \in Range(v) : cnt(x) > cnt(y) \/ (cnt(x) = cnt(y) /\ x <= y)

\* The pool-size block raises when int() is given the NaN that mean() of
\* no values is.
PoolStatsRaises(fd) ==
    "pool_size" \in fd.columns /\ Values(fd, "pool_size") = <<>>

PoolStats(fd) ==
    IF "pool_size" \in fd.columns
    THEN LET v == [i \in 1..Len(Values(fd, "pool_size")) |->
                      Values(fd, "pool_size")[i].n]
         IN  [shown |-> TRUE, mean |-> Mean(v), median |-> Median(v), mode |-> Mode(v)]
    ELSE NoStats

\* The blocks after the statistics: industries, top roles, cities, states.
Blocks(d, fd) ==
    (IF "pool_size" \in fd.columns THEN {"pool_stats", "pool_mode", "pool_chart"} ELSE {})
    \cup (IF "gpt_industry" \in fd.columns THEN {"industry_breakdown"} ELSE {})
    \cup (IF /\ "primary_role" \in d.columns
             /\ "location_clean" \in d.columns
             /\ \E i \in 1..Len(fd.rows) :
                    /\ NotNa(fd.rows[i].cells["location_clean"])
                    /\ NotNa(fd.rows[i].cells["primary_role"])
          THEN {"top_roles_chart"} ELSE {})
    \cup (IF "city" \in fd.columns /\ Values(fd, "city") # <<>>
          THEN {"top_cities"} ELSE {"no_city_data"})
    \cup (IF "state" \in fd.columns /\ Values(fd, "state") # <<>>
          THEN {"top_states"} ELSE {"no_state_data"})

Aggregate ==
    /\ pc = "sorted"
    /\ IF PoolStatsRaises(filtered_df)
       THEN /\ pc' = "raised"
            /\ raised' = "int_of_nan"
            /\ UNCHANGED <<stats, out, executed>>
       ELSE /\ stats' = PoolStats(filtered_df)
            /\ out' = out \cup Blocks(df, filtered_df)
            /\ executed' = executed \cup {"aggregate"}
            /\ pc' = "aggregated"
            /\ raised' = raised
    /\ UNCHANGED <<uploaded_file, file, df, msgs, unique, selected, filtered_df,
                   sort_column, sort_ascending>>

\* st.download_button(data=filtered_df.to_csv(index=False), ...)
Export ==
    /\ pc = "aggregated"
    /\ out' = out \cup {"download"}
    /\ executed' = executed \cup {"export"}
    /\ pc' = "exported"
    /\ UNCHANGED <<uploaded_file, file, df, msgs, raised, unique, selected,
                   filtered_df, sort_column, sort_ascending, stats>>

----------------------------------------------------------------------------

Next ==
    \/ LoadUploaded
    \/ LoadDefault
    \/ Stop
    \/ Rename
    \/ DeriveVocabularies
    \/ Select
    \/ Filter
    \/ Project
    \/ Sort
    \/ Aggregate
    \/ Export

Spec == Init /\ [][Next]_vars

----------------------------------------------------------------------------
\* Properties

\* C1: every failed load, from the upload or from the default path, gives an
\* empty record set and a reported error, and no exception escapes.
C1_LoadFailureReported ==
    (pc # "load" /\ ~file.ok) =>
        /\ raised = "none"
        /\ Empty(df)
        /\ "error" \in msgs

\* C2: when the loaded record set has zero rows the run stops right after
\* loading: no later step is executed and nothing is rendered.
C2_EmptyHalts ==
    (pc # "load" /\ Len(df.rows) = 0) =>
        /\ pc \in {"loaded", "stopped", "raised"}
        /\ executed = {}
        /\ out = {}

\* A run stopped on a file that has a header and no rows.
C2_Witness ==
    pc = "stopped" /\ file.ok /\ df.columns # {} /\ Len(df.rows) = 0

\* A row satisfies every active predicate: a selected role occurs in its
\* cleaned_roles text; its other cells are members of the selections.
Passes(r, s) ==
    /\ s.roles # {} =>
          /\ r.cells["cleaned_roles"].k = "str"
          /\ \E v \in s.roles : Contains(v, r.cells["cleaned_roles"].s)
    /\ s.industries # {} =>
          /\ NotNa(r.cells["gpt_industry"])
          /\ r.cells["gpt_industry"].s \in s.industries
    /\ s.locations # {} =>
          /\ NotNa(r.cells["location_clean"])
          /\ r.cells["location_clean"].s \in s.locations
    /\ s.states # {} =>
          /\ NotNa(r.cells["state"])
          /\ r.cells["state"].s \in s.states
    /\ s.cities # {} =>
          /\ NotNa(r.cells["city"])
          /\ r.cells["city"].s \in s.cities

\* C3: the filter step returns exactly the rows that satisfy all active
\* predicates, in original row order.
C3_FilterExact ==
    pc = "filtered" =>
        filtered_df.rows = SelectSeq(df.rows, LAMBDA r : Passes(r, selected))

\* Selecting the role "M" keeps the row whose roles are "SM, O".
C3_Witness ==
    /\ pc = "filtered"
    /\ selected.roles = {tM}
    /\ \E i \in 1..Len(filtered_df.rows) :
          filtered_df.rows[i].cells["cleaned_roles"] = Str(tSMO)

\* C4: the filtered rows are among the unfiltered rows, no more numerous, and
\* emptying the selection of any one dimension never gives fewer rows.
C4_Monotonic ==
    pc = "filtered" =>
        /\ Range(filtered_df.rows) \subseteq Range(df.rows)
        /\ Len(filtered_df.rows) <= Len(df.rows)
        /\ \A d \in Dims :
              selected[d] # {} =>
                  Len(filtered_df.rows)
                      <= Len(FilteredFrame(df, [selected EXCEPT ![d] = {}]).rows)

\* A selection that removes rows while keeping some.
C4_Witness ==
    /\ pc = "filtered"
    /\ \E d \in Dims : selected[d] # {}
    /\ filtered_df.rows # <<>>
    /\ Len(filtered_df.rows) < Len(df.rows)

Orders ==
    {[i \in 1..Len(ProgramOrder) |-> ProgramOrder[p[i]]] :
        p \in Permutations(1..Len(ProgramOrder))}

\* C5: applying the five filters in any order gives the rows the program's
\* order gives.
C5_OrderIndependent ==
    pc = "filtered" =>
        \A order \in Orders :
            Range(ApplyInOrder(order, df.rows, selected)) = Range(filtered_df.rows)

\* Two dimensions are selected and each removes a row the other keeps.
C5_Witness ==
    /\ pc = "filtered"
    /\ selected.roles # {}
    /\ selected.cities # {}
    /\ Len(FilterStep("roles", df.rows, selected)) > Len(filtered_df.rows)
    /\ Len(FilterStep("cities", df.rows, selected)) > Len(filtered_df.rows)

\* C6: when an aggregation has no input values the aggregation step does not
\* raise: the mode is omitted and the cities / states blocks say "no data".
C6_EmptyAggregationDegrades ==
    LET noPool == "pool_size" \in filtered_df.columns
                      /\ Values(filtered_df, "pool_size") = <<>>
        noCity == "city" \in filtered_df.columns /\ Values(filtered_df, "city") = <<>>
        noState == "state" \in filtered_df.columns /\ Values(filtered_df, "state") = <<>>
    IN  ("sort" \in executed /\ (noPool \/ noCity \/ noState)) =>
            /\ raised = "none"
            /\ pc \in {"aggregated", "exported"} =>
                  /\ noPool => "pool_mode" \notin out
                  /\ noCity => "no_city_data" \in out
                  /\ noState => "no_state_data" \in out

\* The column each filter dimension reads.
DimColumn(d) ==
    CASE d = "roles" -> "cleaned_roles"
      [] d = "industries" -> "gpt_industry"
      [] d = "locations" -> "location_clean"
      [] d = "states" -> "state"
      [] d = "cities" -> "city"

\* C7: a run on a non-empty record set lacking optional columns completes
\* without error; a missing column has an empty vocabulary, is never
\* filtered on, and its summary block is omitted.
C7_MissingColumnsDegrade ==
    (pc # "load" /\ ~Empty(df)) =>
        /\ raised = "none"
        /\ \A d \in Dims :
              (pc # "loaded" /\ DimColumn(d) \notin df.columns) =>
                  unique[d] = <<>> /\ selected[d] = {}
        /\ "pool_size" \notin df.columns => "pool_stats" \notin out
        /\ "gpt_industry" \notin df.columns => "industry_breakdown" \notin out
        /\ "city" \notin df.columns => "top_cities" \notin out
        /\ "state" \notin df.columns => "top_states" \notin out

\* C8: after the sort, rows with equal sort keys are in the order they had
\* after filtering (the order of their index).
C8_StableSort ==
    pc = "sorted" =>
        \A i, j \in 1..Len(filtered_df.rows) :
            (i < j /\ filtered_df.rows[i].cells[sort_column]
                        = filtered_df.rows[j].cells[sort_column]) =>
                filtered_df.rows[i].idx < filtered_df.rows[j].idx

\* sorted distinct non-empty trimmed tokens of the non-missing cells.
NonEmptyTokens(d, col) ==
    SortedSeq({t \in UNION {{Strip(tok) : tok \in Range(Split(cell))} :
                               cell \in DropNaStr(d, col)} : t # <<>>})

\* C9: the vocabularies of cleaned_roles and gpt_industry are the sorted
\* distinct non-empty trimmed tokens; the empty text is never an entry.
C9_VocabularyNonEmptyTokens ==
    (pc \notin {"load", "loaded", "stopped", "raised", "renamed"}) =>
        /\ "cleaned_roles" \in df.columns =>
              unique.roles = NonEmptyTokens(df, "cleaned_roles")
        /\ "gpt_industry" \in df.columns =>
              unique.industries = NonEmptyTokens(df, "gpt_industry")
        /\ <<>> \notin Range(unique.roles) \cup Range(unique.industries)

\* The cell contributed v to the vocabulary of dimension d.
Contributes(x, d, v) ==
    /\ NotNa(x)
    /\ IF d \in {"roles", "industries"}
       THEN \E tok \in Range(Split(x.s)) : Strip(tok) = v
       ELSE x.s = v

\* C10: selecting any one vocabulary value alone keeps at least one row,
\* namely every row whose cell contributed the value.
C10_VocabularyEffective ==
    pc = "vocabulary" =>
        \A d \in Dims : \A v \in Range(unique[d]) :
            LET kept == FilteredFrame(df, [NoSelection EXCEPT ![d] = {v}]).rows
            IN  /\ kept # <<>>
                /\ \A i \in 1..Len(df.rows) :
                      Contributes(df.rows[i].cells[DimColumn(d)], d, v) =>
                          df.rows[i] \in Range(kept)

====
